---- MODULE Spec2Model ----
(***************************************************************************)
(* Model of src/app.py, the Palm Industry Content Agent.                   *)
(*                                                                         *)
(* The script is a Streamlit page: every widget interaction re-executes    *)
(* the whole script from top to bottom.  One action of this module is one  *)
(* such execution.  The only state that survives an execution is           *)
(* st.session_state.generated_content and the widget values; what one      *)
(* execution shows and which outbound requests it makes are recorded in    *)
(* `display` and `calls`, together with the replies the two providers gave *)
(* to it.                                                                  *)
(*                                                                         *)
(* The sidebar takes each key from st.secrets and, when that holds none,   *)
(* from a password field; the page reads only the resolved value, which is *)
(* what gemini_api_key and unsplash_api_key hold.  A session with a secret *)
(* never changes its key; the model lets every session change it.          *)
(*                                                                         *)
(* A Python string is a sequence of tokens; `x in s` on strings is         *)
(* Contains(s, x).  ErrorMark stands for the cross-mark emoji U+274C the   *)
(* script puts at the head of its error texts.                             *)
(***************************************************************************)
EXTENDS Integers, Sequences, FiniteSets, TLC

---------------------------------------------------------------------------
(* Bounds of the model *)

MaxHistory == 2
MaxClock == 1

---------------------------------------------------------------------------
(* Strings *)

ErrorMark == "U+274C"

Contains(s, x) == \E i \in 1..Len(s) : s[i] = x

---------------------------------------------------------------------------
(* Widgets and their values *)

Keys == {"", "key"}

Topics == {"", "Harvesting Dates"}

Tones == {"Professional", "Casual", "Educational", "Inspiring", "Informative"}

\* The caption length slider, at the value it starts at.  The length only
\* enters the instruction sent to the provider.
SliderDefault == 50
Lengths == {SliderDefault}

---------------------------------------------------------------------------
(* The text-generation provider *)

PrimaryModel == "gemini-1.5-flash-latest"
FallbackFlash == "models/gemini-1.5-flash"
FallbackPro == "models/gemini-1.5-pro"

\* Texts response.text can hold.  A caption may itself carry the cross mark.
Texts == { <<"Dates are ripe.", "#palm">>,
           <<ErrorMark, "Myth: palms need no water.", "#palm">> }

\* Failures of generate_content, by class, with the text str(e) gives.
\* The client library puts the status code at the head of the message.
Failures ==
    { [class |-> "not_found",
       msg |-> <<"404", "models/gemini-1.5-flash-latest is", "not found">>],
      [class |-> "auth", msg |-> <<"403", "permission denied">>],
      [class |-> "network",
       msg |-> <<"503", "DNS resolution failed: Domain name", "not found">>] }

GeminiReplies ==
    { [ok |-> TRUE, class |-> "ok", body |-> t] : t \in Texts } \cup
    { [ok |-> FALSE, class |-> f.class, body |-> f.msg] : f \in Failures }

\* What generate_caption hands back: the string it returns, the return
\* statement that returned it, the models it asked, in order, and the
\* replies it got from them.  The instruction it builds from topic, tone
\* and max_length is the same for every model it asks and decides nothing
\* of what the function does next.
Returned(text, via, asked, replies) ==
    [text |-> text, via |-> via, requests |-> asked, replies |-> replies]

MentionsNotFound(error_msg) ==
    Contains(error_msg, "404") \/ Contains(error_msg, "not found")

ExhaustedText(error_msg) ==
    <<ErrorMark, "Error: Unable to find working Gemini model.",
      "Original error:">> \o error_msg \o
    <<"Please verify your API key at: https://aistudio.google.com/app/apikey",
      "Tip: Click 'Test Gemini API' button in sidebar to see available models.">>

OtherErrorText(error_msg) ==
    <<ErrorMark, "Error generating caption:">> \o error_msg \o
    <<"Please check your API key.">>

Succeeded == { r \in GeminiReplies : r.ok }
Failed == { r \in GeminiReplies : ~r.ok }

\* A slip: the first fallback is left out, the second is asked in its place.
generate_caption_SkipsFlash(topic, tone, max_length, api_key) ==
    { Returned(r1.body, "primary", <<PrimaryModel>>, <<r1>>) :
        r1 \in Succeeded }
    \cup
    UNION { IF MentionsNotFound(r1.body)
            THEN { Returned(IF r3.ok THEN r3.body ELSE ExhaustedText(r1.body),
                            IF r3.ok THEN "pro" ELSE "exhausted",
                            <<PrimaryModel, FallbackPro>>, <<r1, r3>>) :
                     r3 \in GeminiReplies }
            ELSE { Returned(OtherErrorText(r1.body), "other_error",
                            <<PrimaryModel>>, <<r1>>) } :
            r1 \in Failed }

\* generate_caption: every result the function can return, one for each way
\* the provider can answer the requests the function makes.
generate_caption(topic, tone, max_length, api_key) ==
    LET pro(r1, r2) ==
            { Returned(r3.body, "pro",
                       <<PrimaryModel, FallbackFlash, FallbackPro>>,
                       <<r1, r2, r3>>) : r3 \in Succeeded }
            \cup
            { Returned(ExhaustedText(r1.body), "exhausted",
                       <<PrimaryModel, FallbackFlash, FallbackPro>>,
                       <<r1, r2, r3>>) : r3 \in Failed }
        flash(r1) ==
            { Returned(r2.body, "flash", <<PrimaryModel, FallbackFlash>>,
                       <<r1, r2>>) : r2 \in Succeeded }
            \cup
            UNION { pro(r1, r2) : r2 \in Failed }
    IN  { Returned(r1.body, "primary", <<PrimaryModel>>, <<r1>>) :
            r1 \in Succeeded }
        \cup
        UNION { IF MentionsNotFound(r1.body)
                THEN flash(r1)
                ELSE { Returned(OtherErrorText(r1.body), "other_error",
                                <<PrimaryModel>>, <<r1>>) } :
                r1 \in Failed }

---------------------------------------------------------------------------
(* The image-search provider *)

SearchUrl == "https://api.unsplash.com/search/photos"

Photo ==
    [urls |-> [regular |-> "https://images.unsplash.com/photo-1?w=1080",
               thumb |-> "https://images.unsplash.com/photo-1?w=200"],
     user |-> [name |-> "Ana Palmer",
               links |-> [html |-> "https://unsplash.com/@ana"]],
     links |-> [download |-> "https://unsplash.com/photos/1/download"]]

\* A result that lacks the `urls` object.
PhotoWithoutUrls ==
    [user |-> Photo.user, links |-> Photo.links]

\* What requests.get can do: raise, or answer with a status and a body.
UnsplashReplies ==
    { [raised |-> TRUE, status |-> 0, results |-> <<>>,
       error |-> <<"Connection refused">>],
      [raised |-> FALSE, status |-> 401, results |-> <<>>,
       error |-> <<"401 Client Error: Unauthorized">>],
      [raised |-> FALSE, status |-> 200, results |-> <<PhotoWithoutUrls>>,
       error |-> <<"'urls'">>],
      [raised |-> FALSE, status |-> 200, results |-> <<>>, error |-> <<>>],
      [raised |-> FALSE, status |-> 200, results |-> <<Photo>>,
       error |-> <<>>] }

\* One message shown on the page.
Shown(kind, text) == [kind |-> kind, text |-> text]

\* What fetch_unsplash_image hands back: its value (<<>> is None, <<d>> the
\* dict d), what it showed, and its request with the reply to it.
Fetched(value, shown, query, reply) ==
    [value |-> value, shown |-> shown,
     requests |-> <<SearchUrl>>, query |-> query, replies |-> <<reply>>]

\* A slip: the exception is swallowed without a message.
FetchError_Silent(reply) == <<>>

FetchError(reply) ==
    <<Shown("error", <<"Error fetching image:">> \o reply.error)>>

\* fetch_unsplash_image: every result the function can return, one for each
\* way the provider can answer its request.
fetch_unsplash_image(query, api_key) ==
    { LET q == <<"palm", query>> IN
      IF reply.raised \/ reply.status >= 400
      THEN Fetched(<<>>, FetchError(reply), q, reply)
      ELSE IF reply.results # <<>>
      THEN LET photo == reply.results[1] IN
           IF "urls" \in DOMAIN photo
           THEN Fetched(<<[url |-> photo.urls.regular,
                           thumb_url |-> photo.urls.thumb,
                           photographer |-> photo.user.name,
                           photographer_url |-> photo.user.links.html,
                           download_url |-> photo.links.download]>>,
                        <<>>, q, reply)
           ELSE Fetched(<<>>, FetchError(reply), q, reply)
      ELSE Fetched(<<>>, <<>>, q, reply) :
      reply \in UnsplashReplies }

---------------------------------------------------------------------------
(* The generate handler *)

\* A slip: the check of the Unsplash key is left out.
Validate_SkipsUnsplashKey(gemini_key, unsplash_key, topic) ==
    IF gemini_key = ""
    THEN <<Shown("error",
                 <<"Please enter your Google Gemini API key in the sidebar.">>)>>
    ELSE IF topic = ""
    THEN <<Shown("error", <<"Please enter a topic.">>)>>
    ELSE <<>>

\* A slip: the check of the topic is left out.
Validate_SkipsTopic(gemini_key, unsplash_key, topic) ==
    IF gemini_key = ""
    THEN <<Shown("error",
                 <<"Please enter your Google Gemini API key in the sidebar.">>)>>
    ELSE IF unsplash_key = ""
    THEN <<Shown("error",
                 <<"Please enter your Unsplash API key in the sidebar.">>)>>
    ELSE <<>>

\* The three checks that precede any request: <<>> when all pass.
Validate(gemini_key, unsplash_key, topic) ==
    IF gemini_key = ""
    THEN <<Shown("error",
                 <<"Please enter your Google Gemini API key in the sidebar.">>)>>
    ELSE IF unsplash_key = ""
    THEN <<Shown("error",
                 <<"Please enter your Unsplash API key in the sidebar.">>)>>
    ELSE IF topic = ""
    THEN <<Shown("error", <<"Please enter a topic.">>)>>
    ELSE <<>>

\* A slip: no return value is taken for an error.
IsErrorCaption_Never(caption) == FALSE

\* The handler's test of generate_caption's return value.
IsErrorCaption(caption) == Contains(caption, ErrorMark)

NewRecord(timestamp, topic, tone, caption, image_data) ==
    [timestamp |-> timestamp, topic |-> topic, tone |-> tone,
     caption |-> caption, image_url |-> image_data.url,
     photographer |-> image_data.photographer,
     photographer_url |-> image_data.photographer_url]

\* One execution of the handler: the path it took, its requests and their
\* replies, what the two functions returned, what it showed, and the store
\* it leaves.
Run(path, requests, g_replies, caption, u_replies, image, shown, store) ==
    [branch |-> path, calls |-> requests, gemini_replies |-> g_replies,
     caption_result |-> caption, unsplash_replies |-> u_replies,
     image_result |-> image, display |-> shown, generated_content |-> store]

\* What datetime.now() can read when a record is made: the clock, in
\* seconds, does not run backwards.
Clock(store) ==
    (IF store = <<>> THEN 0 ELSE store[Len(store)].timestamp) .. MaxClock

\* A slip: the record is made whether or not an image was found, with empty
\* image fields when there is none.
Compose_AppendsWithoutImage(topic, tone, cap, img, store) ==
    LET found == img.value # <<>>
        image_data == IF found THEN img.value[1]
                      ELSE [url |-> "", photographer |-> "",
                            photographer_url |-> ""]
    IN  { Run(IF found THEN "appended" ELSE "no_image",
              cap.requests \o img.requests, cap.replies,
              <<cap>>, img.replies, <<img.value>>,
              img.shown \o
              <<Shown("markdown", <<"Generated Caption:">>),
                Shown("info", cap.text),
                IF found
                THEN Shown("success", <<"Content generated successfully!">>)
                ELSE Shown("warning", <<"No image found for this topic.",
                                        "Try a different search term.">>)>>,
              Append(store,
                     NewRecord(clock, topic, tone, cap.text, image_data))) :
          clock \in Clock(store) }

\* The handler once both functions have returned.
Compose(topic, tone, cap, img, store) ==
    IF img.value # <<>>
    THEN LET image_data == img.value[1] IN
         { Run("appended", cap.requests \o img.requests, cap.replies,
             <<cap>>, img.replies, <<img.value>>,
             img.shown \o
             <<Shown("image", <<image_data.url>>),
               Shown("caption", <<"Photo by", image_data.photographer,
                                  image_data.photographer_url, "on Unsplash">>),
               Shown("markdown", <<"Generated Caption:">>),
               Shown("info", cap.text),
               Shown("success", <<"Content generated successfully!">>)>>,
             Append(store,
                    NewRecord(clock, topic, tone, cap.text, image_data))) :
           clock \in Clock(store) }
    ELSE { Run("no_image", cap.requests \o img.requests, cap.replies,
               <<cap>>, img.replies, <<img.value>>,
               img.shown \o
               <<Shown("markdown", <<"Generated Caption:">>),
                 Shown("info", cap.text),
                 Shown("warning", <<"No image found for this topic.",
                                    "Try a different search term.">>)>>,
               store) }

\* The handler once generate_caption has returned.
AfterCaption(topic, tone, unsplash_key, cap, store) ==
    IF ~IsErrorCaption(cap.text)
    THEN UNION { Compose(topic, tone, cap, img, store) :
                   img \in fetch_unsplash_image(topic, unsplash_key) }
    ELSE { Run("caption_error", cap.requests, cap.replies, <<cap>>,
               <<>>, <<>>, <<Shown("error", cap.text)>>, store) }

\* The whole handler: every execution it can have on these inputs.
OnGenerate(topic, tone, max_length, gemini_key, unsplash_key, store) ==
    IF Validate(gemini_key, unsplash_key, topic) # <<>>
    THEN { Run("invalid", <<>>, <<>>, <<>>, <<>>, <<>>,
               Validate(gemini_key, unsplash_key, topic), store) }
    ELSE UNION { AfterCaption(topic, tone, unsplash_key, cap, store) :
                   cap \in generate_caption(topic, tone, max_length,
                                            gemini_key) }

\* An execution in which the generate button was not the widget pressed.
Idle(path, requests, shown, store) ==
    Run(path, requests, <<>>, <<>>, <<>>, <<>>, shown, store)

\* A slip: the button removes the oldest record only.
Cleared_DropsOldest(store) == Tail(store)

\* The store the Clear History button leaves.
Cleared(store) == <<>>

---------------------------------------------------------------------------
(* The page *)

VARIABLES
    gemini_api_key,     \* the Gemini key the sidebar resolves ("": none)
    unsplash_api_key,   \* the Unsplash key the sidebar resolves ("": none)
    topic,              \* the value of the Enter Topic field
    generated_content,  \* st.session_state.generated_content
    store_before,       \* generated_content as the last execution found it
    branch,             \* which path the last execution of the script took
    calls,              \* outbound requests of the last execution, in order
    gemini_replies,     \* what the text provider answered to them, in order
    caption_result,     \* what generate_caption returned (<<>>: not called)
    unsplash_replies,   \* what the image provider answered (<<>>: not asked)
    image_result,       \* what fetch_unsplash_image returned (<<>>: not called)
    display             \* what the generate handler showed, in order

vars == <<gemini_api_key, unsplash_api_key, topic, generated_content,
          store_before, branch, calls,
          gemini_replies, caption_result, unsplash_replies, image_result,
          display>>

Finish(run) ==
    /\ store_before' = generated_content
    /\ generated_content' = run.generated_content
    /\ branch' = run.branch
    /\ calls' = run.calls
    /\ gemini_replies' = run.gemini_replies
    /\ caption_result' = run.caption_result
    /\ unsplash_replies' = run.unsplash_replies
    /\ image_result' = run.image_result
    /\ display' = run.display

Init ==
    /\ gemini_api_key \in Keys
    /\ unsplash_api_key \in Keys
    /\ topic = ""
    /\ generated_content = <<>>
    /\ store_before = <<>>
    /\ branch = "idle"
    /\ calls = <<>>
    /\ gemini_replies = <<>>
    /\ caption_result = <<>>
    /\ unsplash_replies = <<>>
    /\ image_result = <<>>
    /\ display = <<>>

\* The Generate Content button.
Generate ==
    /\ Len(generated_content) < MaxHistory
    /\ \E tone \in Tones, max_length \in Lengths :
         \E run \in OnGenerate(topic, tone, max_length, gemini_api_key,
                               unsplash_api_key, generated_content) :
            Finish(run)
    /\ UNCHANGED <<gemini_api_key, unsplash_api_key, topic>>

\* The Clear History button, drawn only while the store holds a record.
ClearHistory ==
    /\ generated_content # <<>>
    /\ Finish(Idle("cleared", <<>>, <<>>, Cleared(generated_content)))
    /\ UNCHANGED <<gemini_api_key, unsplash_api_key, topic>>

\* The sidebar field for the Gemini key.
EnterGeminiKey ==
    /\ \E k \in Keys : gemini_api_key' = k
    /\ Finish(Idle("idle", <<>>, <<>>, generated_content))
    /\ UNCHANGED <<unsplash_api_key, topic>>

\* The sidebar field for the Unsplash key.
EnterUnsplashKey ==
    /\ \E k \in Keys : unsplash_api_key' = k
    /\ Finish(Idle("idle", <<>>, <<>>, generated_content))
    /\ UNCHANGED <<gemini_api_key, topic>>

\* The Test Gemini API button, drawn only with a key.
TestGemini ==
    /\ gemini_api_key # ""
    /\ \E shown \in { <<Shown("sidebar_success", <<"Gemini API is working!">>)>>,
                      <<Shown("sidebar_error", <<"Error:", "list_models failed">>)>> } :
         Finish(Idle("test_gemini", <<"genai.list_models">>, shown,
                     generated_content))
    /\ UNCHANGED <<gemini_api_key, unsplash_api_key, topic>>

\* The Test Unsplash API button, drawn only with a key.
TestUnsplash ==
    /\ unsplash_api_key # ""
    /\ \E shown \in { <<Shown("sidebar_success", <<"Unsplash API is working!">>)>>,
                      <<Shown("sidebar_error", <<"Status", "401">>)>>,
                      <<Shown("sidebar_error", <<"Error:", "Connection refused">>)>> } :
         Finish(Idle("test_unsplash",
                     <<"https://api.unsplash.com/photos/random">>,
                     shown, generated_content))
    /\ UNCHANGED <<gemini_api_key, unsplash_api_key, topic>>

\* The Enter Topic field.
EnterTopic ==
    /\ \E t \in Topics : topic' = t
    /\ Finish(Idle("idle", <<>>, <<>>, generated_content))
    /\ UNCHANGED <<gemini_api_key, unsplash_api_key>>

\* Any other widget (tone, slider, download): the script runs again with no
\* button pressed.
Rerun ==
    /\ Finish(Idle("idle", <<>>, <<>>, generated_content))
    /\ UNCHANGED <<gemini_api_key, unsplash_api_key, topic>>

Next ==
    \/ Generate
    \/ ClearHistory
    \/ EnterGeminiKey
    \/ EnterUnsplashKey
    \/ EnterTopic
    \/ TestGemini
    \/ TestUnsplash
    \/ Rerun

Spec == Init /\ [][Next]_vars

---------------------------------------------------------------------------
(* Vocabulary of the properties.  Each reads the last execution as the     *)
(* variables record it.                                                    *)

\* The last execution was a press of the generate button.
Pressed == branch \in {"invalid", "caption_error", "no_image", "appended"}

\* The checks of the handler failed on what the page held.
Rejected == gemini_api_key = "" \/ unsplash_api_key = "" \/ topic = ""

\* generate_caption returned through one of its two error returns.
CaptionFailed ==
    /\ caption_result # <<>>
    /\ caption_result[1].via \in {"exhausted", "other_error"}

\* generate_caption returned the text of a reply.
CaptionSucceeded ==
    /\ caption_result # <<>>
    /\ caption_result[1].via \in {"primary", "flash", "pro"}

\* The image lookup ran and gave no image / an image.
NoImage == image_result = << <<>> >>
ImageFound == image_result # <<>> /\ image_result[1] # <<>>

\* The lookup's request failed or its reply could not be read.
LookupFailed ==
    /\ unsplash_replies # <<>>
    /\ \/ unsplash_replies[1].raised
       \/ unsplash_replies[1].status # 200
       \/ /\ unsplash_replies[1].results # <<>>
          /\ "urls" \notin DOMAIN unsplash_replies[1].results[1]

\* The lookup's reply was read and held no result.
LookupEmpty ==
    /\ unsplash_replies # <<>>
    /\ ~unsplash_replies[1].raised
    /\ unsplash_replies[1].status = 200
    /\ unsplash_replies[1].results = <<>>

Grew ==
    /\ Len(generated_content) = Len(store_before) + 1
    /\ SubSeq(generated_content, 1, Len(store_before)) = store_before

Kinds(shown) == { shown[i].kind : i \in 1..Len(shown) }

ShowsCaption(text) ==
    \E i \in 1..Len(display) : display[i] = Shown("info", text)

ShowsWarning == "warning" \in Kinds(display)

---------------------------------------------------------------------------
(* Properties *)

\* C1, as stated: after a press that passes the checks, the store has grown
\* by one record exactly when generate_caption did not return an error,
\* whether or not an image was found.
C1_AppendIffCaptionSucceeded ==
    (Pressed /\ caption_result # <<>>) => (Grew <=> CaptionSucceeded)

\* C1, amended: after a press that passes the checks, the store has grown by
\* one record exactly when the text generate_caption returned holds no error
\* mark and the image lookup returned an image; after an error return, and
\* after a caption for which no image was found, the store is as it was.
C1_AppendIffCaptionAndImage ==
    (Pressed /\ caption_result # <<>>) =>
        /\ Grew <=> (~Contains(caption_result[1].text, ErrorMark) /\ ImageFound)
        /\ ~Grew => generated_content = store_before
        /\ CaptionFailed => ~Grew
        /\ (CaptionSucceeded /\ NoImage) => ~Grew

\* C1's case: a caption was generated, no image was found.
C1_Witness ==
    /\ Pressed /\ CaptionSucceeded /\ NoImage
    /\ store_before # <<>>

\* C2: when the caption succeeded and the lookup gave no image (an empty
\* result or a failed request), the caption is shown with a warning and the
\* store is as it was.
C2_NoImageShowsCaptionKeepsStore ==
    (Pressed /\ CaptionSucceeded /\ NoImage /\ (LookupEmpty \/ LookupFailed)) =>
        /\ ShowsCaption(caption_result[1].text)
        /\ ShowsWarning
        /\ generated_content = store_before

\* C2's case: the lookup's reply held no result, with records in the store.
C2_Witness ==
    /\ Pressed /\ CaptionSucceeded /\ NoImage /\ LookupEmpty
    /\ Len(store_before) = 1

\* C3: a press with a key missing or the topic empty shows an error, makes
\* no request, calls neither function and leaves the store as it was.
C3_RejectedMakesNoCall ==
    (Pressed /\ Rejected) =>
        /\ Len(display) = 1 /\ display[1].kind = "error"
        /\ calls = <<>>
        /\ caption_result = <<>> /\ gemini_replies = <<>>
        /\ image_result = <<>> /\ unsplash_replies = <<>>
        /\ generated_content = store_before

\* C3's case: both keys are there, the topic is empty.
C3_Witness ==
    /\ Pressed /\ topic = ""
    /\ gemini_api_key # "" /\ unsplash_api_key # ""

FallbackOrder == <<PrimaryModel, FallbackFlash, FallbackPro>>

\* C4: when the primary model fails with a not-found failure, the fallback
\* models are asked in the declared order, each at most once; the function
\* stops at the first reply that succeeds and returns its text; it returns
\* an error only after both fallback models were asked and failed.
C4_FallbackInOrder ==
    (caption_result # <<>> /\ gemini_replies[1].class = "not_found") =>
        LET c == caption_result[1]
            n == Len(c.requests)
        IN  /\ n >= 2 /\ n <= Len(FallbackOrder)
            /\ c.requests = SubSeq(FallbackOrder, 1, n)
            /\ Len(c.replies) = n
            /\ \A i \in 1..(n - 1) : ~c.replies[i].ok
            /\ c.replies[n].ok => (CaptionSucceeded /\ c.text = c.replies[n].body)
            /\ CaptionFailed <=> ~c.replies[n].ok
            /\ CaptionFailed => n = Len(FallbackOrder)

\* C4's case: both the primary model and the first fallback failed, the
\* second fallback answered.
C4_Witness ==
    /\ caption_result # <<>>
    /\ gemini_replies[1].class = "not_found"
    /\ caption_result[1].via = "pro"

\* C5, as stated: a failure that is not a not-found failure, of the primary
\* model or of a fallback model, ends the call with an error at once: it is
\* the last request of the call.
C5_OtherFailureEndsCall ==
    caption_result # <<>> =>
        LET c == caption_result[1] IN
        \A i \in 1..Len(c.replies) :
            (~c.replies[i].ok /\ c.replies[i].class # "not_found") =>
                (i = Len(c.replies) /\ CaptionFailed)

\* C6, as stated: the handler takes generate_caption's result for an error
\* exactly when generation failed, whatever text the provider returned: a
\* generated caption always goes on to the image lookup.
C6_ErrorIffGenerationFailed ==
    caption_result # <<>> =>
        /\ (branch = "caption_error") <=> CaptionFailed
        /\ CaptionSucceeded => image_result # <<>>

\* C7: every step leaves the store as it is, adds one record at its end
\* with the records before it untouched, or empties it.
C7_StoreGrowsOrClears ==
    [][ \/ generated_content' = generated_content
        \/ /\ Len(generated_content') = Len(generated_content) + 1
           /\ SubSeq(generated_content', 1, Len(generated_content))
                = generated_content
        \/ generated_content' = <<>> ]_vars

\* C7's case: a record was added to a store that already held one.
C7_Witness ==
    /\ branch = "appended"
    /\ Len(generated_content) = 2
    /\ store_before = <<generated_content[1]>>

\* C8, as stated: a failed lookup and an empty one are the same to the user:
\* the function returns None, no error message is shown for the lookup, and
\* the page shows the caption and the warning only.
C8_LookupFailureIsSilent ==
    (Pressed /\ (LookupFailed \/ LookupEmpty)) =>
        /\ NoImage
        /\ "error" \notin Kinds(display)
        /\ display = <<Shown("markdown", <<"Generated Caption:">>),
                       Shown("info", caption_result[1].text),
                       display[Len(display)]>>
        /\ display[Len(display)].kind = "warning"

\* C8, amended: a failed lookup and an empty one both make the function
\* return None without raising, and the page shows the caption and the
\* warning; after an empty result nothing else is shown, after a failure the
\* function has first shown the error message "Error fetching image: ...".
C8_LookupFailureShowsError ==
    (Pressed /\ (LookupFailed \/ LookupEmpty)) =>
        LET tail == <<Shown("markdown", <<"Generated Caption:">>),
                      Shown("info", caption_result[1].text),
                      display[Len(display)]>>
        IN  /\ NoImage
            /\ branch = "no_image"
            /\ display[Len(display)].kind = "warning"
            /\ LookupEmpty => display = tail
            /\ LookupFailed =>
                 display = <<Shown("error", <<"Error fetching image:">>
                                            \o unsplash_replies[1].error)>>
                           \o tail

\* C8's case: the lookup's request was answered with an error status.
C8_Witness ==
    /\ Pressed /\ LookupFailed
    /\ unsplash_replies[1].status = 401

\* C9: the image lookup is requested at most once, after every request of
\* generate_caption, and only when generate_caption returned a caption; when
\* it returned an error, the error is shown, there is no lookup and the
\* store is as it was.
C9_LookupOnlyAfterCaption ==
    Pressed =>
        /\ Cardinality({ i \in 1..Len(calls) : calls[i] = SearchUrl }) <= 1
        /\ \A i \in 1..Len(calls) :
              calls[i] = SearchUrl =>
                 /\ i = Len(calls)
                 /\ CaptionSucceeded
                 /\ SubSeq(calls, 1, i - 1) = caption_result[1].requests
                 /\ image_result # <<>>
        /\ image_result # <<>> =>
              Cardinality({ i \in 1..Len(calls) : calls[i] = SearchUrl }) = 1
        /\ CaptionFailed =>
              /\ display = <<Shown("error", caption_result[1].text)>>
              /\ \A i \in 1..Len(calls) : calls[i] # SearchUrl
              /\ image_result = <<>> /\ unsplash_replies = <<>>
              /\ generated_content = store_before

\* C9's case: generate_caption returned an error after asking every model.
C9_Witness ==
    /\ Pressed /\ CaptionFailed
    /\ Len(calls) = Len(FallbackOrder)

\* C10: every record of the store has a topic, a tone of the selector, a
\* caption without the error mark, and its three image fields.
C10_RecordsAreComplete ==
    \A i \in 1..Len(generated_content) :
        LET r == generated_content[i] IN
        /\ r.topic # ""
        /\ r.tone \in Tones
        /\ ~Contains(r.caption, ErrorMark)
        /\ r.image_url # "" /\ r.photographer # "" /\ r.photographer_url # ""
        /\ DOMAIN r = {"timestamp", "topic", "tone", "caption", "image_url",
                       "photographer", "photographer_url"}

\* C10's case: the store holds two records.
C10_Witness == Len(generated_content) = 2 /\ branch = "idle"

====
